---- MODULE Spec2Model ----
(***************************************************************************)
(* Model of the connection layer of missile-tid (src/tid/connections.py,   *)
(* src/tid/tec.py): Connection over a possibly gapped observation slice,   *)
(* SparseList, ConnTickMap and the carrier combinations they use.          *)
(*                                                                         *)
(* Python's None is the empty tuple <<>> and a present value x is <<x>>.   *)
(* Python indices are 0-based; station_data is a TLA+ sequence, so row i   *)
(* of the code is station_data[i + 1].                                     *)
(* Real numbers are exact rationals [num, den] with den > 0.               *)
(***************************************************************************)
EXTENDS Integers, Sequences, FiniteSets, TLC

\* ------------------------------------------------------------------ bounds
\* rows of the observation sequence a single connection is studied over
MaxLen == 4
\* ticks run over 100 .. 100 + TickSpan - 1
TickSpan == 6
\* rows of the observation sequence under a ConnTickMap; its ticks run over
\* 100 .. 100 + MapLen
MapLen == 3
\* rows of the observation sequence under tick -> connection lookups; its
\* ticks run over 100 .. 100 + LookupLen
LookupLen == 2
\* most connections a ConnTickMap holds
MaxConns == 2
\* integer ambiguities run over -1 .. MaxAmb
MaxAmb == 2
\* a generic SparseList's ticks run over 100 .. 100 + SparseSpan - 1
SparseSpan == 3
\* most (range, data, lookup) triples of a generic SparseList
MaxTriples == 2
\* most samples of one ion_locs call
MaxSamples == 2
\* greatest distance of a satellite from the Earth's centre
SatRange == 8
\* most epochs of one raw observation
MaxEpochs == 2
\* ticks spanned by each of the two batches of a merge
BatchSpan == 2

VARIABLES
    station_data,   \* scenario.station_data[station][prn]: rows by increasing tick
    scenario,       \* what the owning Scenario knows of the satellite
    connections,    \* ConnTickMap.connections: the Connection objects, in order
    sparse,         \* a SparseList under query, or None
    call_args,      \* the arguments a module-level function is called with, or None
    ret             \* what the last operation returned or raised

vars == <<station_data, scenario, connections, sparse, call_args, ret>>

None == <<>>
Some(x) == <<x>>

Ticks == 100..(100 + TickSpan - 1)
MapTicks == 100..(100 + MapLen)
LookupTicks == 100..(100 + LookupLen)
SparseTicks == 100..(100 + SparseSpan - 1)
\* ticks a caller may ask about: the given ticks and one tick either side
Around(T) == T \cup { t - 1 : t \in T } \cup { t + 1 : t \in T }

\* ------------------------------------------------------- program constants
\* tec.C, the speed of light, in units that keep the arithmetic small
C == 3
\* the (f1, f2) pair Scenario.get_frequencies answers for the satellite
F1 == 3
F2 == 2
\* util.BUTTER_MIN_LENGTH, scaled down to the model's sequence lengths
BUTTER_MIN_LENGTH == 2

\* ------------------------------------------------------------ observations
\* The code and carrier measurements recorded at a tick (columns C1C, C2C,
\* C2P, L1C, L2C of DENSE_TYPE): a fixed synthetic data set, different per
\* tick. A secondary code band is None where the receiver gave numpy.nan.
Meas(t) ==
    [tick |-> t,
     C1C |-> 20 + (t % 3),
     C2C |-> Some(22 + (t % 2)),
     C2P |-> None,
     L1C |-> 6 + (t % 4),
     L2C |-> 4 + (t % 3)]

RECURSIVE SortedSeq(_)
\* the elements of a finite set of integers as a strictly increasing sequence
SortedSeq(S) ==
    IF S = {} THEN <<>>
    ELSE LET m == CHOOSE x \in S : \A y \in S : x <= y
         IN <<m>> \o SortedSeq(S \ {m})

\* every observation sequence of n rows with strictly increasing ticks in T
\* (shorter sequences are the slices connections take of these)
DataSets(T, n) ==
    { [i \in 1..n |-> Meas(SortedSeq(S)[i])] :
        S \in { U \in SUBSET T : Cardinality(U) = n } }

\* the ticks callers ask about, given the data
QueryTicks == Around({ station_data[i].tick : i \in 1..Len(station_data) })

\* --------------------------------------------------------------- Connection
\* Connection.observations: the slice station_data[idx_start : idx_end + 1]
observations(data, idx_start, idx_end) ==
    [k \in 1..(idx_end - idx_start + 1) |-> data[idx_start + k]]

Observations(con) == observations(station_data, con.idx_start, con.idx_end)

\* mutant: the gap's last tick, which was observed, is taken as missing too
init_missing_ticks_inclusive(obs) ==
    LET gap_idxs == { g \in 1..(Len(obs) - 1) : obs[g + 1].tick - obs[g].tick > 1 }
    IN UNION { (obs[g].tick + 1)..(obs[g + 1].tick) : g \in gap_idxs }

\* Connection._init_missing_ticks: for every gap index g with
\* tick[g + 1] - tick[g] > 1, the ticks range(first + 1, last)
init_missing_ticks(obs) ==
    LET gap_idxs == { g \in 1..(Len(obs) - 1) : obs[g + 1].tick - obs[g].tick > 1 }
    IN UNION { (obs[g].tick + 1)..(obs[g + 1].tick - 1) : g \in gap_idxs }

\* Connection.__init__
NewConnection(data, idx_start, idx_end) ==
    [idx_start |-> idx_start,
     idx_end |-> idx_end,
     tick_start |-> data[idx_start + 1].tick,
     tick_end |-> data[idx_end + 1].tick,
     missing_ticks |-> init_missing_ticks(observations(data, idx_start, idx_end)),
     n_chan1 |-> None,
     n_chan2 |-> None,
     offset |-> None,
     offset_error |-> None]

\* mutant: the check for a missing tick is left out
tick_idx_unchecked(con, tick) ==
    Some(tick - con.tick_start
         - Cardinality({ missing \in con.missing_ticks : tick > missing }))

\* mutant: the missing ticks before the query are not subtracted
tick_idx_dense(con, tick) ==
    IF tick \in con.missing_ticks THEN None ELSE Some(tick - con.tick_start)

\* Connection.tick_idx
tick_idx(con, tick) ==
    IF tick \in con.missing_ticks THEN None
    ELSE Some(tick - con.tick_start
              - Cardinality({ missing \in con.missing_ticks : tick > missing }))

\* Connection.__contains__
contains(con, tick) == con.tick_start <= tick /\ tick <= con.tick_end

\* Scenario.get_frequencies(prn, observations): the (f1, f2) pair of the
\* satellite, or None when it cannot be determined
get_frequencies(prn, obs) == scenario.freq

\* A call scn.get_frequencies(*args): the method takes the satellite and the
\* observation slice (the rows carry no prn column), so Python raises
\* TypeError for any other number of positional arguments
call_get_frequencies(args) ==
    IF Len(args) # 2 THEN [val |-> None, err |-> Some("TypeError")]
    ELSE [val |-> get_frequencies(args[1], args[2]), err |-> None]

\* Connection.frequencies: the lookup, asserted to have succeeded
frequencies(con) ==
    LET f == call_get_frequencies(<<scenario.prn, Observations(con)>>)
    IN IF f.err # None THEN [val |-> None, err |-> f.err]
       ELSE IF f.val = None THEN [val |-> None, err |-> Some("AssertionError")]
       ELSE [val |-> f.val, err |-> None]

\* Connection.is_glonass: prn.startswith("R"), over the satellites of the model
is_glonass == scenario.prn \in {"R07"}

get_glonass_chan(prn, obs) == scenario.chan

\* the getter of Connection.frequencies and the scenario lookups it makes
frequencies_getter(con) ==
    LET f == frequencies(con)
    IN [val |-> f.val, err |-> f.err, lookups |-> 1]

\* the getter of Connection.glonass_chan and the scenario lookups it makes
glonass_chan_getter(con) ==
    IF ~is_glonass THEN [val |-> Some(0), err |-> None, lookups |-> 0]
    ELSE LET chan == get_glonass_chan(scenario.prn, Observations(con))
         IN IF chan = None
            THEN [val |-> None, err |-> Some("AssertionError"), lookups |-> 1]
            ELSE [val |-> chan, err |-> None, lookups |-> 1]

\* a plain property: the getter runs on every access
cached_property_uncached(con, name, getter) ==
    [con |-> con, val |-> getter.val, err |-> getter.err,
     lookups |-> getter.lookups, cached |-> FALSE]

\* functools.cached_property: an access returns the value kept under the
\* property's name in the instance's __dict__ when there is one; otherwise it
\* runs the getter and, when the getter returns, keeps its value there
cached_property(con, name, getter) ==
    IF name \in DOMAIN con
    THEN [con |-> con, val |-> con[name], err |-> None, lookups |-> 0, cached |-> TRUE]
    ELSE IF getter.err # None
    THEN [con |-> con, val |-> None, err |-> getter.err,
          lookups |-> getter.lookups, cached |-> FALSE]
    ELSE [con |-> (name :> getter.val) @@ con, val |-> getter.val, err |-> None,
          lookups |-> getter.lookups, cached |-> FALSE]

RECURSIVE SumSeq(_)
SumSeq(s) == IF s = <<>> THEN 0 ELSE Head(s) + SumSeq(Tail(s))

\* One sample's code_phase_diffs - carrier_phase_diffs,
\*   (C2C - C1C) - C * (L1C / f1 - L2C / f2),  as a numerator over f1 * f2
difference_num(row, f1, f2) ==
    (row.C2C[1] - row.C1C) * f1 * f2 - C * (row.L1C * f2 - row.L2C * f1)

\* mutant: a further call adds the mean to the offset already there
correct_ambiguities_avg_accumulating(con, obs, f1, f2) ==
    LET nums == [k \in 1..Len(obs) |-> difference_num(obs[k], f1, f2)]
        sqs == [k \in 1..Len(obs) |-> nums[k] * nums[k]]
        n == Len(obs)
        before == IF con.offset = None THEN 0 ELSE con.offset[1].num
    IN [con EXCEPT
          !.offset = Some([num |-> before + SumSeq(nums), den |-> n * f1 * f2]),
          !.offset_error =
              Some([sqrt_num |-> n * SumSeq(sqs) - SumSeq(nums) * SumSeq(nums),
                    sqrt_den |-> (n * f1 * f2) * (n * f1 * f2)])]

\* Connection._correct_ambiguities_avg: offset = numpy.mean(difference) and
\* offset_error = numpy.std(difference); the standard deviation is kept as the
\* rational under its square root, sqrt(sqrt_num / sqrt_den)
correct_ambiguities_avg(con, obs, f1, f2) ==
    LET nums == [k \in 1..Len(obs) |-> difference_num(obs[k], f1, f2)]
        sqs == [k \in 1..Len(obs) |-> nums[k] * nums[k]]
        n == Len(obs)
    IN [con EXCEPT
          !.offset = Some([num |-> SumSeq(nums), den |-> n * f1 * f2]),
          !.offset_error =
              Some([sqrt_num |-> n * SumSeq(sqs) - SumSeq(nums) * SumSeq(nums),
                    sqrt_den |-> (n * f1 * f2) * (n * f1 * f2)])]

\* Connection.correct_ambiguities
correct_ambiguities(con) ==
    LET f == frequencies(con)
    IN IF f.err # None THEN [con |-> con, err |-> f.err]
       ELSE [con |-> correct_ambiguities_avg(con, Observations(con),
                                             f.val[1][1], f.val[1][2]),
             err |-> None]

\* mutant: the smoothed offset is preferred to the integer ambiguities
carrier_correction_meters_offset_first(con) ==
    IF con.offset # None
    THEN [val |-> con.offset, err |-> None]
    ELSE IF con.n_chan1 # None /\ con.n_chan2 # None
    THEN LET f == frequencies(con)
         IN IF f.err # None THEN [val |-> None, err |-> f.err]
            ELSE LET f1 == f.val[1][1]
                     f2 == f.val[1][2]
                 IN [val |-> Some([num |-> C * (con.n_chan2[1] * f1 - con.n_chan1[1] * f2),
                                   den |-> f1 * f2]),
                     err |-> None]
    ELSE [val |-> None, err |-> Some("AssertionError")]

\* Connection.carrier_correction_meters
carrier_correction_meters(con) ==
    IF con.n_chan1 # None /\ con.n_chan2 # None
    THEN LET f == frequencies(con)
         IN IF f.err # None THEN [val |-> None, err |-> f.err]
            ELSE LET f1 == f.val[1][1]
                     f2 == f.val[1][2]
                 IN [val |-> Some([num |-> C * (con.n_chan2[1] * f1 - con.n_chan1[1] * f2),
                                   den |-> f1 * f2]),
                     err |-> None]
    ELSE IF con.offset # None
    THEN [val |-> con.offset, err |-> None]
    ELSE [val |-> None, err |-> Some("AssertionError")]

\* ------------------------------------------------------------------ tec.py
\* tec.calc_carrier_delays: per sample C * (L1C - L2C) plus the connection's
\* carrier correction, plus the satellite's bias, minus the station's; the
\* biases are not yet solved, so sat_biases.get and rcvr_biases.get give 0
calc_carrier_delays(con) ==
    LET cc == carrier_correction_meters(con)
        obs == Observations(con)
    IN IF cc.err # None THEN [val |-> None, err |-> cc.err]
       ELSE [val |-> Some([k \in 1..Len(obs) |->
                              [num |-> C * (obs[k].L1C - obs[k].L2C) * cc.val[1].den
                                       + cc.val[1].num + 0 - 0,
                               den |-> cc.val[1].den]]),
             err |-> None]

\* util.channel2: the secondary code band the observations carry, C2C unless
\* it is numpy.nan throughout, then C2P; LookupError when both are
channel2(obs) ==
    IF \E k \in 1..Len(obs) : obs[k].C2C # None THEN [val |-> Some("C2C"), err |-> None]
    ELSE IF \E k \in 1..Len(obs) : obs[k].C2P # None THEN [val |-> Some("C2P"), err |-> None]
    ELSE [val |-> None, err |-> Some("LookupError")]

\* one sample of phase - pseudorange, with
\*   phase = C / (f1 - f2) * (L1C - L2C)
\*   pseudorange = 1 / (f1 + f2) * (f1 * C1C + f2 * observations[chan2])
mw_sample(row, chan2, f1, f2) ==
    LET code2 == IF chan2 = "C2C" THEN row.C2C ELSE row.C2P
    IN IF code2 = None THEN [nan |-> TRUE]
       ELSE [num |-> C * (row.L1C - row.L2C) * (f1 + f2)
                     - (f1 * row.C1C + f2 * code2[1]) * (f1 - f2),
             den |-> (f1 - f2) * (f1 + f2)]

\* tec.melbourne_wubbena(scn, observations)
melbourne_wubbena(obs) ==
    LET fr == call_get_frequencies(<<obs>>)
    IN IF fr.err # None THEN [val |-> None, err |-> fr.err]
       ELSE IF fr.val = None THEN [val |-> None, err |-> None]
       ELSE LET f1 == fr.val[1][1]
                f2 == fr.val[1][2]
                ch == channel2(obs)
            IN IF ch.err # None THEN [val |-> None, err |-> None]
               ELSE [val |-> Some([k \in 1..Len(obs) |->
                                      mw_sample(obs[k], ch.val[1], f1, f2)]),
                     err |-> None]

\* Connection.vtecs[0], from tec.calculate_vtecs: one TEC value per sample,
\* derived from that sample's calibrated carrier delay
vtecs(con) ==
    LET delays == calc_carrier_delays(con)
    IN IF delays.err # None THEN [val |-> None, err |-> delays.err]
       ELSE [val |-> Some([k \in 1..Len(delays.val[1]) |->
                              [tecu_of |-> delays.val[1][k]]]),
             err |-> None]

\* util.bpfilter: the band-pass filter, one output per input sample, each
\* depending on the whole input
bpfilter(data) == [k \in 1..Len(data) |-> [filtered |-> data, at |-> k]]

\* radius of the Earth and of the ionosphere shell, in scaled units
EARTH_RADIUS == 5
IONOSPHERE_H == EARTH_RADIUS + 1

Dot(u, v) == u[1] * v[1] + u[2] * v[2] + u[3] * v[3]
Minus(u, v) == <<u[1] - v[1], u[2] - v[2], u[3] - v[3]>>

\* numpy.sum(rec_pos ** 2), no axis given: the sum over every row and column
RECURSIVE SumOfSquares(_)
SumOfSquares(pos) ==
    IF pos = <<>> THEN 0 ELSE Dot(Head(pos), Head(pos)) + SumOfSquares(Tail(pos))

\* row i of rec_pos as numpy broadcasts it against sat_pos: one row serves
\* every sample, n rows serve one sample each
BroadcastRow(rec_pos, i) == rec_pos[IF Len(rec_pos) = 1 THEN 1 ELSE i]

\* sqrt(disc) >= k and sqrt(disc) <= k for disc >= 0, decided on the squares
SqrtGeq(disc, k) == k <= 0 \/ disc >= k * k
SqrtLeq(disc, k) == k >= 0 /\ disc <= k * k

\* abs(x) < abs(y) for x = b_scaled + common, y = b_scaled - common, where
\* common = sqrt(disc) / (2a) >= 0 and b_scaled = -b / (2a) with a > 0:
\* x*x < y*y exactly when 4 * b_scaled * common < 0.
\* A NaN on either side compares false.
AbsLess(b, disc) == disc > 0 /\ b > 0

\* tec.ion_locs(rec_pos, sat_pos, ionh), one record per sample.  The scale
\* chosen for the sample is (-b + sign * sqrt(disc)) / (2a), or NaN when
\* disc < 0; it is kept by sign, b, disc and a so that it stays exact.  The
\* pierce point is rec + (sat - rec) * scale, whose squared distance from the
\* origin is a*scale^2 + b*scale + |rec|^2 = |rec|^2 - c, as scale is a root
\* of a*t^2 + b*t + c.
ion_locs(rec_pos, sat_pos, ionh) ==
    LET c == SumOfSquares(rec_pos) - ionh * ionh
    IN  [i \in 1..Len(sat_pos) |->
            LET rec == BroadcastRow(rec_pos, i)
                a == Dot(Minus(sat_pos[i], rec), Minus(sat_pos[i], rec))
                b == 2 * Dot(Minus(sat_pos[i], rec), rec)
                disc == b * b - 4 * a * c
            IN  [nan |-> disc < 0,
                 sign |-> IF AbsLess(b, disc) THEN 1 ELSE -1,
                 a |-> a, b |-> b, disc |-> disc,
                 norm2 |-> Dot(rec, rec) - c]]

\* 0 <= scale and scale <= 1 for a scale returned by ion_locs
ScaleGeq0(s) ==
    /\ ~s.nan
    /\ IF s.sign = 1 THEN SqrtGeq(s.disc, s.b) ELSE SqrtLeq(s.disc, -s.b)
ScaleLeq1(s) ==
    /\ ~s.nan
    /\ IF s.sign = 1 THEN SqrtLeq(s.disc, 2 * s.a + s.b)
       ELSE SqrtGeq(s.disc, -s.b - 2 * s.a)

\* ----------------------------------------------------------- dense_data.py
\* the field names of DENSE_TYPE, in order
DENSE_TYPE ==
    <<"tick", "C1C", "C2C", "C2P", "C5C", "L1C", "L2C", "L5C",
      "recv_time_sec", "recv_time_week", "sat_clock_err",
      "sat_pos", "sat_vel", "sat_pos_final", "is_processed", "is_corrected">>

\* a float that is not a number
NaN == None

\* observables.get(band, numpy.nan)
Get(observables, band) ==
    IF band \in DOMAIN observables THEN Some(observables[band]) ELSE NaN

\* dense_data._meas_to_tuple(raw_meas)
meas_to_tuple(raw_meas) ==
    <<0,
      Get(raw_meas.observables, "C1C"),
      Get(raw_meas.observables, "C2C"),
      Get(raw_meas.observables, "C2P"),
      Get(raw_meas.observables, "C5C"),
      Get(raw_meas.observables, "L1C"),
      Get(raw_meas.observables, "L2C"),
      Get(raw_meas.observables, "L5C"),
      raw_meas.recv_time_sec,
      raw_meas.recv_time_week,
      raw_meas.sat_clock_err,
      <<raw_meas.sat_pos[1], raw_meas.sat_pos[2], raw_meas.sat_pos[3]>>,
      <<raw_meas.sat_vel[1], raw_meas.sat_vel[2], raw_meas.sat_vel[3]>>,
      <<raw_meas.sat_pos_final[1], raw_meas.sat_pos_final[2], raw_meas.sat_pos_final[3]>>,
      raw_meas.corrected,
      raw_meas.processed>>

\* numpy.array(value, dtype=DENSE_TYPE): each tuple becomes a row whose k-th
\* field, in the order of DENSE_TYPE, is the tuple's k-th element
FieldIndex(name) == CHOOSE k \in 1..Len(DENSE_TYPE) : DENSE_TYPE[k] = name
StructArray(value) ==
    [i \in 1..Len(value) |->
        [name \in { DENSE_TYPE[k] : k \in 1..Len(DENSE_TYPE) } |->
            value[i][FieldIndex(name)]]]

RECURSIVE Flatten(_)
Flatten(seqs) == IF seqs = <<>> THEN <<>> ELSE Head(seqs) \o Flatten(Tail(seqs))

\* the measurements of one satellite, in the order the two loops meet them
MeasurementsOf(raw_obs, prn) ==
    LET all == Flatten(raw_obs)
        Is(meas) == meas.prn = prn
    IN SelectSeq(all, Is)

\* rows[["C2C", "C2P"]] = rows[["C2P", "C2C"]]
SwapC2(rows) ==
    [i \in 1..Len(rows) |-> [rows[i] EXCEPT !.C2C = rows[i].C2P, !.C2P = rows[i].C2C]]

\* dense_data.from_raw_obs(raw_obs): a dict from prn to rows
from_raw_obs(raw_obs) ==
    LET all == Flatten(raw_obs)
        sv_dict_tmp ==
            [prn \in { all[k].prn : k \in 1..Len(all) } |->
                [k \in 1..Len(MeasurementsOf(raw_obs, prn)) |->
                    meas_to_tuple(MeasurementsOf(raw_obs, prn)[k])]]
    IN  [key \in DOMAIN sv_dict_tmp |->
            LET rows == StructArray(sv_dict_tmp[key])
            IN  IF \A i \in 1..Len(rows) : rows[i].C2C = NaN
                THEN SwapC2(rows) ELSE rows]

\* dict[key] = value
Put(dict, key, value) ==
    [k \in DOMAIN dict \cup {key} |-> IF k = key THEN value ELSE dict[k]]

\* the loop of merge_data over the satellites of data2 still to visit; data1
\* is the first mapping as the loop reads it
RECURSIVE merge_loop(_, _, _, _)
merge_loop(combined, data1, data2, prns) ==
    IF prns = {} THEN combined
    ELSE LET prn == CHOOSE q \in prns : TRUE
             rows == IF prn \notin DOMAIN data1 THEN data2[prn]
                     ELSE data1[prn] \o data2[prn]
         IN merge_loop(Put(combined, prn, rows), data1, data2, prns \ {prn})

\* merging into data1 itself, without the copy
merge_data_in_place(data1, data2) ==
    LET combined == merge_loop(data1, data1, data2, DOMAIN data2)
    IN [val |-> combined, data1 |-> combined, data2 |-> data2]

\* dense_data.merge_data(data1, data2): the mapping returned, and the two
\* argument mappings as the call leaves them.  combined starts as a copy of
\* data1, so storing into it leaves data1 alone; numpy.append builds a new
\* array.
merge_data(data1, data2) ==
    LET combined == merge_loop(data1, data1, data2, DOMAIN data2)
    IN [val |-> combined, data1 |-> data1, data2 |-> data2]

\* --------------------------------------------------------------- SparseList
\* the float 0.0, SparseList's default default
Zero == [num |-> 0, den |-> 1]

MaxOf(S) == CHOOSE x \in S : \A y \in S : y <= x

\* SparseList.__init__: max() of an empty sequence raises ValueError
SparseList_init(index_ranges, data, tick_lookup, default) ==
    IF index_ranges = <<>>
    THEN [val |-> None, err |-> Some("ValueError")]
    ELSE [val |-> Some([ranges |-> index_ranges,
                        data |-> data,
                        tick_lookup |-> tick_lookup,
                        default |-> default,
                        max |-> MaxOf({ index_ranges[i][2] : i \in 1..Len(index_ranges) })]),
          err |-> None]

\* datum[idx] of a Python sequence: a negative idx counts from the end
PyIndex(datum, idx) ==
    IF 0 <= idx /\ idx < Len(datum) THEN [val |-> datum[idx + 1], err |-> None]
    ELSE IF -Len(datum) <= idx /\ idx < 0
    THEN [val |-> datum[Len(datum) + idx + 1], err |-> None]
    ELSE [val |-> None, err |-> Some("IndexError")]

\* mutant: the index is tested for truth, so index 0 reads as missing
SparseList_getitem_falsy(sl, tick) ==
    LET hits == { i \in 1..Len(sl.ranges) :
                    sl.ranges[i][1] <= tick /\ tick <= sl.ranges[i][2] }
    IN IF hits = {} THEN [val |-> sl.default, err |-> None]
       ELSE LET i == CHOOSE h \in hits : \A g \in hits : h <= g
                idx == sl.tick_lookup[i][tick]
            IN IF idx = None \/ idx = Some(0) THEN [val |-> sl.default, err |-> None]
               ELSE PyIndex(sl.data[i], idx[1])

\* mutant: the scan takes the ranges to be sorted and gives up at the first
\* range that starts after the tick
SparseList_getitem_sorted(sl, tick) ==
    LET hits == { i \in 1..Len(sl.ranges) :
                    /\ sl.ranges[i][1] <= tick /\ tick <= sl.ranges[i][2]
                    /\ \A j \in 1..(i - 1) : sl.ranges[j][1] <= tick }
    IN IF hits = {} THEN [val |-> sl.default, err |-> None]
       ELSE LET i == CHOOSE h \in hits : \A g \in hits : h <= g
                idx == sl.tick_lookup[i][tick]
            IN IF idx = None THEN [val |-> sl.default, err |-> None]
               ELSE PyIndex(sl.data[i], idx[1])

\* SparseList.__getitem__: the first triple whose range holds the tick decides
SparseList_getitem(sl, tick) ==
    LET hits == { i \in 1..Len(sl.ranges) :
                    sl.ranges[i][1] <= tick /\ tick <= sl.ranges[i][2] }
    IN IF hits = {} THEN [val |-> sl.default, err |-> None]
       ELSE LET i == CHOOSE h \in hits : \A g \in hits : h <= g
                idx == sl.tick_lookup[i][tick]
            IN IF idx = None THEN [val |-> sl.default, err |-> None]
               ELSE PyIndex(sl.data[i], idx[1])

\* -------------------------------------------------------------- ConnTickMap
\* mutant: the scan does not stop at the first connection holding the tick
ConnTickMap_getitem_last(conns, tick) ==
    LET hits == { c \in 1..Len(conns) : contains(conns[c], tick) }
    IN IF hits = {} THEN [val |-> None, err |-> Some("KeyError")]
       ELSE [val |-> Some(CHOOSE h \in hits : \A g \in hits : g <= h), err |-> None]

\* ConnTickMap.__getitem__: the first connection holding the tick, here by its
\* place in the collection, or KeyError
ConnTickMap_getitem(conns, tick) ==
    LET hits == { c \in 1..Len(conns) : contains(conns[c], tick) }
    IN IF hits = {} THEN [val |-> None, err |-> Some("KeyError")]
       ELSE [val |-> Some(CHOOSE h \in hits : \A g \in hits : h <= g), err |-> None]

\* the bound method con.tick_idx, as its table over the ticks asked about
TickLookup(con) == [t \in QueryTicks |-> tick_idx(con, t)]

\* the first error raised while evaluating con.vtecs over conns, or None
RECURSIVE FirstError(_)
FirstError(conns) ==
    IF conns = <<>> THEN None
    ELSE IF vtecs(Head(conns)).err # None THEN vtecs(Head(conns)).err
    ELSE FirstError(Tail(conns))

\* ConnTickMap.get_vtecs
get_vtecs(conns) ==
    IF FirstError(conns) # None THEN [val |-> None, err |-> FirstError(conns)]
    ELSE SparseList_init(
            [c \in 1..Len(conns) |-> <<conns[c].tick_start, conns[c].tick_end>>],
            [c \in 1..Len(conns) |-> vtecs(conns[c]).val[1]],
            [c \in 1..Len(conns) |-> TickLookup(conns[c])],
            Zero)

\* the test of get_filtered_vtecs for "not enough data to filter"
too_short(con) == con.idx_end - con.idx_start < BUTTER_MIN_LENGTH

\* the connections get_filtered_vtecs does not skip, in order
Kept(conns) == SelectSeq(conns, LAMBDA con : ~too_short(con))

\* ConnTickMap.get_filtered_vtecs
get_filtered_vtecs(conns) ==
    LET kept == Kept(conns)
    IN IF FirstError(kept) # None THEN [val |-> None, err |-> FirstError(kept)]
       ELSE SparseList_init(
               [c \in 1..Len(kept) |-> <<kept[c].tick_start, kept[c].tick_end>>],
               [c \in 1..Len(kept) |-> bpfilter(vtecs(kept[c]).val[1])],
               [c \in 1..Len(kept) |-> TickLookup(kept[c])],
               Zero)

\* ------------------------------------------------------------------ actions
NoRet == [op |-> "none", con |-> 0, tick |-> 0, val |-> None, err |-> None]

\* a GPS satellite whose frequency pair is known
GpsScenario == [prn |-> "G01", freq |-> Some(<<F1, F2>>)]

\* Connection(scenario, station, prn, idx_start, idx_end), added to the
\* collection while it holds fewer than limit connections
Construct(limit) ==
    /\ Len(connections) < limit
    /\ \E idx_start \in 0..(Len(station_data) - 1) :
       \E idx_end \in idx_start..(Len(station_data) - 1) :
          /\ connections' = Append(connections,
                                   NewConnection(station_data, idx_start, idx_end))
          /\ ret' = [NoRet EXCEPT !.op = "construct", !.con = Len(connections) + 1]
    /\ UNCHANGED <<station_data, scenario, sparse, call_args>>

ConstructOne == Construct(1)

ConstructMember == Construct(MaxConns)

\* con.tick_idx(tick)
TickIdx ==
    /\ \E c \in 1..Len(connections) : \E tick \in QueryTicks :
          ret' = [NoRet EXCEPT !.op = "tick_idx", !.con = c, !.tick = tick,
                               !.val = tick_idx(connections[c], tick)]
    /\ UNCHANGED <<station_data, scenario, connections, sparse, call_args>>

\* tick in con
Contains ==
    /\ \E c \in 1..Len(connections) : \E tick \in QueryTicks :
          ret' = [NoRet EXCEPT !.op = "contains", !.con = c, !.tick = tick,
                               !.val = Some(contains(connections[c], tick))]
    /\ UNCHANGED <<station_data, scenario, connections, sparse, call_args>>

\* con.correct_ambiguities()
CorrectAmbiguities ==
    /\ \E c \in 1..Len(connections) :
          LET r == correct_ambiguities(connections[c])
          IN /\ connections' = [connections EXCEPT ![c] = r.con]
             /\ ret' = [NoRet EXCEPT !.op = "correct_ambiguities", !.con = c,
                                     !.err = r.err]
    /\ UNCHANGED <<station_data, scenario, sparse, call_args>>

\* con.carrier_correction_meters
CarrierCorrectionMeters ==
    /\ \E c \in 1..Len(connections) :
          LET r == carrier_correction_meters(connections[c])
          IN ret' = [NoRet EXCEPT !.op = "carrier_correction_meters", !.con = c,
                                  !.val = r.val, !.err = r.err]
    /\ UNCHANGED <<station_data, scenario, connections, sparse, call_args>>

\* con.vtecs[0]
Vtecs ==
    /\ \E c \in 1..Len(connections) :
          LET r == vtecs(connections[c])
          IN ret' = [NoRet EXCEPT !.op = "vtecs", !.con = c,
                                  !.val = r.val, !.err = r.err]
    /\ UNCHANGED <<station_data, scenario, connections, sparse, call_args>>

\* conn_map[tick]
MapGetItem ==
    /\ \E tick \in QueryTicks :
          LET r == ConnTickMap_getitem(connections, tick)
          IN ret' = [NoRet EXCEPT !.op = "map_getitem", !.tick = tick,
                                  !.val = r.val, !.err = r.err]
    /\ UNCHANGED <<station_data, scenario, connections, sparse, call_args>>

\* conn_map.get_vtecs()
GetVtecs ==
    /\ LET r == get_vtecs(connections)
       IN ret' = [NoRet EXCEPT !.op = "get_vtecs", !.val = r.val, !.err = r.err]
    /\ UNCHANGED <<station_data, scenario, connections, sparse, call_args>>

\* conn_map.get_filtered_vtecs()
GetFilteredVtecs ==
    /\ LET r == get_filtered_vtecs(connections)
       IN ret' = [NoRet EXCEPT !.op = "get_filtered_vtecs", !.val = r.val, !.err = r.err]
    /\ UNCHANGED <<station_data, scenario, connections, sparse, call_args>>

\* sparse[tick]
SparseGetItem ==
    /\ sparse # None
    /\ \E tick \in Around(SparseTicks) :
          LET r == SparseList_getitem(sparse[1], tick)
          IN ret' = [NoRet EXCEPT !.op = "sparse_getitem", !.tick = tick,
                                  !.val = Some(r.val), !.err = r.err]
    /\ UNCHANGED <<station_data, scenario, connections, sparse, call_args>>

\* tec.ion_locs(rec_pos, sat_pos, ionh)
IonLocs ==
    /\ call_args # None
    /\ ret' = [NoRet EXCEPT !.op = "ion_locs",
                 !.val = ion_locs(call_args.rec_pos, call_args.sat_pos, call_args.ionh)]
    /\ UNCHANGED <<station_data, scenario, connections, sparse, call_args>>

\* connection.frequencies and connection.glonass_chan read as attributes; the
\* scenario counts, per connection, the lookups made of it
Access(name, method) ==
    \E c \in 1..Len(connections) :
        LET con == connections[c]
            r == cached_property(con, name,
                                 IF name = "frequencies" THEN frequencies_getter(con)
                                 ELSE glonass_chan_getter(con))
        IN  /\ connections' = [connections EXCEPT ![c] = r.con]
            /\ scenario' = [scenario EXCEPT !.calls[c][method] = @ + r.lookups]
            /\ ret' = [op |-> name, con |-> c, tick |-> 0, val |-> r.val,
                       err |-> r.err, cached |-> r.cached]
            /\ UNCHANGED <<station_data, sparse, call_args>>

Frequencies == Access("frequencies", "get_frequencies")

GlonassChan == Access("glonass_chan", "get_glonass_chan")

\* dense_data.from_raw_obs(raw_obs)
FromRawObs ==
    /\ call_args # None
    /\ ret' = [NoRet EXCEPT !.op = "from_raw_obs", !.val = from_raw_obs(call_args.raw_obs)]
    /\ UNCHANGED <<station_data, scenario, connections, sparse, call_args>>

\* dense_data.merge_data(data1, data2)
MergeData ==
    /\ call_args # None
    /\ LET r == merge_data(call_args.data1, call_args.data2)
       IN  /\ ret' = [NoRet EXCEPT !.op = "merge_data", !.val = r.val]
           /\ call_args' = [data1 |-> r.data1, data2 |-> r.data2]
    /\ UNCHANGED <<station_data, scenario, connections, sparse>>

\* ----------------------------------------------------------- specifications
\* One connection's life: built over a slice of the data, queried, corrected,
\* and seen through a ConnTickMap that holds it alone.
Init ==
    /\ station_data \in DataSets(Ticks, MaxLen)
    /\ scenario = GpsScenario
    /\ connections = <<>>
    /\ sparse = None
    /\ call_args = None
    /\ ret = NoRet

Next ==
    \/ ConstructOne
    \/ TickIdx
    \/ Contains
    \/ CorrectAmbiguities
    \/ CarrierCorrectionMeters
    \/ Vtecs
    \/ MapGetItem
    \/ GetVtecs
    \/ GetFilteredVtecs

Spec == Init /\ [][Next]_vars

\* A ConnTickMap over connections that may overlap, in any order.
InitMap ==
    /\ station_data \in DataSets(MapTicks, MapLen)
    /\ scenario = GpsScenario
    /\ connections = <<>>
    /\ sparse = None
    /\ call_args = None
    /\ ret = NoRet

NextMap ==
    \/ ConstructMember
    \/ CorrectAmbiguities
    \/ MapGetItem
    \/ GetVtecs
    \/ GetFilteredVtecs

SpecMap == InitMap /\ [][NextMap]_vars

\* ConnTickMap lookups over a two-row sequence, with or without a gap.
InitLookup ==
    /\ station_data \in DataSets(LookupTicks, LookupLen)
    /\ scenario = GpsScenario
    /\ connections = <<>>
    /\ sparse = None
    /\ call_args = None
    /\ ret = NoRet

NextLookup ==
    \/ ConstructMember
    \/ CorrectAmbiguities
    \/ MapGetItem

SpecLookup == InitLookup /\ [][NextLookup]_vars

\* carrier_correction_meters over every setting of the correction fields: a
\* connection whose integer ambiguities were assigned from outside, or not.
Amb == {None} \cup { Some(n) : n \in (-1)..MaxAmb }

InitCarrier ==
    /\ station_data \in DataSets(Ticks, MaxLen)
    /\ scenario = GpsScenario
    /\ \E idx_start \in 0..(Len(station_data) - 1) :
       \E idx_end \in idx_start..(Len(station_data) - 1) :
       \E n1 \in Amb : \E n2 \in Amb :
          connections = << [NewConnection(station_data, idx_start, idx_end)
                               EXCEPT !.n_chan1 = n1, !.n_chan2 = n2] >>
    /\ sparse = None
    /\ call_args = None
    /\ ret = NoRet

NextCarrier ==
    \/ CorrectAmbiguities
    \/ CarrierCorrectionMeters

SpecCarrier == InitCarrier /\ [][NextCarrier]_vars

\* A SparseList over non-overlapping ranges given in any order, with any
\* lookup functions into arrays of one slot per tick of the range.
Intervals == { r \in SparseTicks \X SparseTicks : r[1] <= r[2] }

Disjoint(r1, r2) == r1[2] < r2[1] \/ r2[2] < r1[1]

RangeSeqs ==
    UNION { { rs \in [1..n -> Intervals] :
                \A i \in 1..n : \A j \in 1..n : i # j => Disjoint(rs[i], rs[j]) } :
            n \in 1..MaxTriples }

Size(r) == r[2] - r[1] + 1

\* the backing arrays: slot k of the i-th array holds the value 10 * i + k
DataFor(rs) ==
    [i \in 1..Len(rs) |-> [k \in 1..Size(rs[i]) |-> [num |-> 10 * i + k, den |-> 1]]]

Lookups(r) == [r[1]..r[2] -> {None} \cup { Some(k) : k \in 0..(Size(r) - 1) }]

RECURSIVE LookupSeqs(_)
LookupSeqs(rs) ==
    IF rs = <<>> THEN { <<>> }
    ELSE { <<f>> \o rest : f \in Lookups(Head(rs)), rest \in LookupSeqs(Tail(rs)) }

InitSparse ==
    /\ station_data = <<>>
    /\ scenario = GpsScenario
    /\ connections = <<>>
    /\ \E rs \in RangeSeqs : \E ls \in LookupSeqs(rs) : \E default \in {Zero, None} :
          sparse = SparseList_init(rs, DataFor(rs), ls, default).val
    /\ call_args = None
    /\ ret = NoRet

NextSparse == SparseGetItem

SpecSparse == InitSparse /\ [][NextSparse]_vars

\* melbourne_wubbena over observations of a GPS or a GLONASS satellite whose
\* frequencies are known or not, with either, or no, secondary code band.
Scenarios ==
    { GpsScenario,
      [prn |-> "R07", freq |-> Some(<<F1, F2>>)],
      [prn |-> "R07", freq |-> None] }

\* the rows with their secondary code band moved to C2P, or lost
WithBand(data, band) ==
    [i \in 1..Len(data) |->
        IF band = "C2C" THEN data[i]
        ELSE IF band = "C2P" THEN [data[i] EXCEPT !.C2P = data[i].C2C, !.C2C = None]
        ELSE [data[i] EXCEPT !.C2C = None]]

InitMW ==
    /\ \E data \in DataSets(Ticks, MaxLen) : \E band \in {"C2C", "C2P", "none"} :
          station_data = WithBand(data, band)
    /\ scenario \in Scenarios
    /\ connections = <<>>
    /\ sparse = None
    /\ call_args = None
    /\ ret = NoRet

\* tec.melbourne_wubbena(scn, observations)
MelbourneWubbena ==
    /\ LET r == melbourne_wubbena(station_data)
       IN ret' = [NoRet EXCEPT !.op = "melbourne_wubbena", !.val = r.val, !.err = r.err]
    /\ UNCHANGED <<station_data, scenario, connections, sparse, call_args>>

NextMW == MelbourneWubbena

SpecMW == InitMW /\ [][NextMW]_vars

\* ion_locs over receivers on the Earth's surface and satellites beyond the
\* ionosphere shell, in the plane z = 0.  The receiver argument is one
\* position for all samples, as Connection.ipps passes it, or one position
\* per sample, as the function documents it.
Coords == -SatRange..SatRange
Receivers ==
    { <<x, y, 0>> : x \in 0..EARTH_RADIUS, y \in 0..EARTH_RADIUS }
        \cap { p \in Coords \X Coords \X {0} : Dot(p, p) = EARTH_RADIUS * EARTH_RADIUS }
Satellites ==
    { p \in Coords \X Coords \X {0} :
        /\ Dot(p, p) > IONOSPHERE_H * IONOSPHERE_H
        /\ Dot(p, p) <= SatRange * SatRange }
Positions(S, n) == UNION { [1..k -> S] : k \in 1..n }

InitIon ==
    /\ station_data = <<>>
    /\ scenario = GpsScenario
    /\ connections = <<>>
    /\ sparse = None
    /\ \E sat_pos \in Positions(Satellites, MaxSamples) :
       \E rec_pos \in Positions(Receivers, MaxSamples) :
          /\ Len(rec_pos) \in {1, Len(sat_pos)}
          /\ call_args = [rec_pos |-> rec_pos, sat_pos |-> sat_pos, ionh |-> IONOSPHERE_H]
    /\ ret = NoRet

NextIon == IonLocs

SpecIon == InitIon /\ [][NextIon]_vars

\* The cached properties of the connections of a GPS or a GLONASS satellite
\* whose frequency pair and channel the scenario knows.
NoCalls == [c \in 1..MaxConns |-> [get_frequencies |-> 0, get_glonass_chan |-> 0]]
CachedScenarios ==
    { [prn |-> "G01", freq |-> Some(<<F1, F2>>), chan |-> None, calls |-> NoCalls] }
        \cup { [prn |-> "R07", freq |-> Some(<<F1, F2>>), chan |-> Some(k), calls |-> NoCalls] :
                 k \in {-7, 6} }

InitCached ==
    /\ station_data \in DataSets(100..(100 + LookupLen - 1), LookupLen)
    /\ scenario \in CachedScenarios
    /\ connections = <<>>
    /\ sparse = None
    /\ call_args = None
    /\ ret = NoRet

NextCached ==
    \/ ConstructMember
    \/ Frequencies
    \/ GlonassChan

SpecCached == InitCached /\ [][NextCached]_vars

\* from_raw_obs over the raw observations of up to MaxEpochs epochs, each
\* holding one measurement of each of some satellites; a measurement carries
\* its secondary code band as C2C or as C2P and its two processing flags
Prns == {"G01", "R07"}
GNSSMeasurements ==
    { [prn |-> prn,
       observables |-> [band \in {"C1C", c2, "L1C", "L2C"} |->
                           IF band = "C1C" THEN 20 ELSE IF band = c2 THEN 21
                           ELSE IF band = "L1C" THEN 30 ELSE 31],
       recv_time_sec |-> 0, recv_time_week |-> 0, sat_clock_err |-> 0,
       sat_pos |-> <<SatRange, 0, 0>>, sat_vel |-> <<0, 0, 0>>,
       sat_pos_final |-> <<SatRange, 0, 0>>,
       processed |-> processed, corrected |-> corrected] :
         prn \in Prns, c2 \in {"C2C", "C2P"},
         processed \in BOOLEAN, corrected \in BOOLEAN }
Epochs ==
    { e \in UNION { [1..k -> GNSSMeasurements] : k \in 1..Cardinality(Prns) } :
        \A i, j \in 1..Len(e) : i < j => e[i].prn # e[j].prn }

InitRaw ==
    /\ station_data = <<>>
    /\ scenario = GpsScenario
    /\ connections = <<>>
    /\ sparse = None
    /\ \E raw_obs \in UNION { [1..k -> Epochs] : k \in 1..MaxEpochs } :
          call_args = [raw_obs |-> raw_obs]
    /\ ret = NoRet

NextRaw == FromRawObs

SpecRaw == InitRaw /\ [][NextRaw]_vars

\* merge_data over two batches of dense measurements, the first over the
\* ticks 100.., the second over the ticks that follow; each batch holds rows
\* for any of the satellites
RowSets(T) == UNION { DataSets(T, n) : n \in 1..Cardinality(T) }
Batches(T) == UNION { [S -> RowSets(T)] : S \in SUBSET Prns }

InitMerge ==
    /\ station_data = <<>>
    /\ scenario = GpsScenario
    /\ connections = <<>>
    /\ sparse = None
    /\ \E data1 \in Batches(100..(100 + BatchSpan - 1)) :
       \E data2 \in Batches((100 + BatchSpan)..(100 + 2 * BatchSpan - 1)) :
          call_args = [data1 |-> data1, data2 |-> data2]
    /\ ret = NoRet

NextMerge == MergeData

SpecMerge == InitMerge /\ [][NextMerge]_vars

\* ------------------------------------------------------------------- claims
\* the connection the last operation was called on
RetCon == connections[ret.con]

\* the ticks recorded in the connection's slice
ObservedTicks(con) == { Observations(con)[k].tick : k \in 1..Len(Observations(con)) }

\* C1: for a tick with tick_start <= tick <= tick_end, tick_idx(tick) returns
\* None if and only if the tick is in the connection's missing_ticks.
C1_TickIdxNoneIffMissing ==
    (ret.op = "tick_idx" /\ RetCon.tick_start <= ret.tick /\ ret.tick <= RetCon.tick_end)
        => (ret.val = None <=> ret.tick \in RetCon.missing_ticks)

\* tick_idx answered None for a missing tick inside a gapped connection
C1_Witness ==
    /\ ret.op = "tick_idx"
    /\ ret.tick \in RetCon.missing_ticks
    /\ RetCon.tick_start < ret.tick /\ ret.tick < RetCon.tick_end
    /\ ret.val = None

\* C2: round trip: for a tick in [tick_start, tick_end] that is not missing,
\* tick_idx(tick) is an index i with 0 <= i <= idx_end - idx_start, and row i
\* of the connection's observations has that tick.
C2_TickIdxRoundTrip ==
    (/\ ret.op = "tick_idx"
     /\ RetCon.tick_start <= ret.tick /\ ret.tick <= RetCon.tick_end
     /\ ret.tick \notin RetCon.missing_ticks)
        => /\ ret.val # None
           /\ 0 <= ret.val[1] /\ ret.val[1] <= RetCon.idx_end - RetCon.idx_start
           /\ Observations(RetCon)[ret.val[1] + 1].tick = ret.tick

\* tick_idx found a tick that lies after a gap: the index is smaller than
\* tick - tick_start
C2_Witness ==
    /\ ret.op = "tick_idx"
    /\ ret.val # None
    /\ RetCon.tick_start <= ret.tick /\ ret.tick <= RetCon.tick_end
    /\ \E m \in RetCon.missing_ticks : m < ret.tick
    /\ ret.val[1] < ret.tick - RetCon.tick_start

\* C3: after construction, missing_ticks is exactly the set of ticks strictly
\* between tick_start and tick_end that no row of the slice records.
C3_MissingTicksExact ==
    \A c \in 1..Len(connections) :
        connections[c].missing_ticks =
            { t \in (connections[c].tick_start + 1)..(connections[c].tick_end - 1) :
                t \notin ObservedTicks(connections[c]) }

\* a connection over ticks 100, 101, 103, 104 was built and reports {102}
C3_Witness ==
    \E c \in 1..Len(connections) :
        /\ ObservedTicks(connections[c]) = {100, 101, 103, 104}
        /\ connections[c].missing_ticks = {102}

\* C4: for a SparseList over non-overlapping ranges, sparse[tick] is the
\* default when no range holds the tick, the default when the range's lookup
\* answers None, and otherwise the element of that range's array at the index
\* the lookup gives.
C4_SparseGetItem ==
    ret.op = "sparse_getitem" =>
        LET sl == sparse[1]
            inside == { i \in 1..Len(sl.ranges) :
                          sl.ranges[i][1] <= ret.tick /\ ret.tick <= sl.ranges[i][2] }
        IN /\ ret.err = None
           /\ inside = {} => ret.val = Some(sl.default)
           /\ \A i \in inside :
                 LET idx == sl.tick_lookup[i][ret.tick]
                 IN /\ idx = None => ret.val = Some(sl.default)
                    /\ idx # None => ret.val = Some(sl.data[i][idx[1] + 1])

\* a lookup into the second range returned a stored element, found at index 0
\* although the tick is not the first of its range
C4_Witness ==
    /\ ret.op = "sparse_getitem"
    /\ Len(sparse[1].ranges) = 2
    /\ sparse[1].ranges[2][1] < ret.tick /\ ret.tick <= sparse[1].ranges[2][2]
    /\ sparse[1].tick_lookup[2][ret.tick] = Some(0)
    /\ ret.val = Some(sparse[1].data[2][1])
    /\ ret.val # Some(sparse[1].default)

\* the number of samples of a connection
SampleCount(con) == con.idx_end - con.idx_start + 1

\* the tick ranges of the connections of conns that satisfy Keep, in order
RangesOf(conns, Keep(_)) ==
    LET kept == SelectSeq(conns, Keep)
    IN [c \in 1..Len(kept) |-> <<kept[c].tick_start, kept[c].tick_end>>]

AtLeastMinLength(con) == SampleCount(con) >= BUTTER_MIN_LENGTH

AnyLength(con) == TRUE

\* C5: get_filtered_vtecs() omits a connection exactly when its sample count
\* idx_end - idx_start + 1 is below BUTTER_MIN_LENGTH and includes every
\* connection with at least that many samples; get_vtecs() includes them all.
C5_FilteredOmitsBelowMinLength ==
    /\ (ret.op = "get_filtered_vtecs" /\ ret.err = None)
          => ret.val[1].ranges = RangesOf(connections, AtLeastMinLength)
    /\ (ret.op = "get_vtecs" /\ ret.err = None)
          => ret.val[1].ranges = RangesOf(connections, AnyLength)

\* the connections too short to filter, and the others, by the code's own test
Skipped == { c \in 1..Len(connections) : too_short(connections[c]) }

Filtered == { c \in 1..Len(connections) : ~too_short(connections[c]) }

\* C6: get_filtered_vtecs() never raises because of connections too short to
\* filter: over any collection, also one where every connection is too short,
\* it returns a SparseList, and a lookup at a tick only skipped connections
\* cover gives the default 0.0.
C6_FilteredNeverRaisesForShort ==
    (/\ ret.op = "get_filtered_vtecs"
     /\ Skipped # {}
     /\ \A c \in Filtered : connections[c].offset # None)
        => /\ ret.err = None
           /\ ret.val # None
           /\ \A c \in Skipped : \A tick \in QueryTicks :
                 (/\ contains(connections[c], tick)
                  /\ \A k \in Filtered : ~contains(connections[k], tick))
                    => SparseList_getitem(ret.val[1], tick) = [val |-> Zero, err |-> None]

\* C7: conn_map[tick] returns the first connection in collection order with
\* tick_start <= tick <= tick_end, missing ticks included, raises KeyError if
\* and only if no connection covers the tick, and changes neither the map nor
\* a connection.
C7_MapGetItemFirstCovering ==
    [][ret'.op = "map_getitem" =>
          LET covering == { c \in 1..Len(connections) :
                              /\ connections[c].tick_start <= ret'.tick
                              /\ ret'.tick <= connections[c].tick_end }
          IN /\ connections' = connections
             /\ station_data' = station_data
             /\ ret'.err = Some("KeyError") <=> covering = {}
             /\ covering = {} => ret'.val = None
             /\ covering # {} =>
                   /\ ret'.err = None
                   /\ ret'.val # None
                   /\ ret'.val[1] \in covering
                   /\ \A c \in covering : ret'.val[1] <= c
      ]_vars

\* the lookup of a missing tick that two connections cover returned the first
C7_Witness ==
    /\ ret.op = "map_getitem"
    /\ ret.val = Some(1)
    /\ Len(connections) = 2
    /\ ret.tick \in connections[1].missing_ticks
    /\ contains(connections[2], ret.tick)

\* whether the rational r equals a / b
RatEq(r, a, b) == r.num * b = a * r.den

\* C8: carrier_correction_meters returns C * (n_chan2 / f2 - n_chan1 / f1)
\* when both integers are set, otherwise the offset when it is set (also when
\* only one integer is set), and fails with an assertion when neither is: so
\* it fails on a fresh connection before correct_ambiguities().
C8_CarrierCorrectionMeters ==
    ret.op = "carrier_correction_meters" =>
        LET con == RetCon
            f1 == scenario.freq[1][1]
            f2 == scenario.freq[1][2]
        IN IF con.n_chan1 # None /\ con.n_chan2 # None
           THEN /\ ret.err = None
                /\ ret.val # None
                /\ RatEq(ret.val[1], C * (con.n_chan2[1] * f1 - con.n_chan1[1] * f2), f1 * f2)
           ELSE IF con.offset # None
           THEN ret.err = None /\ ret.val = con.offset
           ELSE ret.err = Some("AssertionError") /\ ret.val = None

\* the integers won over an offset that was set too, and gave another value
C8_Witness ==
    /\ ret.op = "carrier_correction_meters"
    /\ RetCon.n_chan1 = Some(2) /\ RetCon.n_chan2 = Some(1)
    /\ RetCon.offset # None
    /\ ret.val # RetCon.offset
    /\ ret.err = None

\* the correction fields of a connection
Correction(con) == <<con.offset, con.offset_error, con.n_chan1, con.n_chan2>>

\* what both readings of C9 share: a new connection has every correction
\* field unset, a field changes only in a correct_ambiguities() call on its
\* connection, and a field that is set never changes
C9_Lifecycle ==
    \A c \in 1..Len(connections') :
        /\ c > Len(connections) =>
              Correction(connections'[c]) = <<None, None, None, None>>
        /\ c <= Len(connections) =>
              \A f \in 1..4 :
                 /\ Correction(connections[c])[f] # None =>
                       Correction(connections'[c])[f] = Correction(connections[c])[f]
                 /\ Correction(connections'[c])[f] # Correction(connections[c])[f] =>
                       ret'.op = "correct_ambiguities" /\ ret'.con = c

HasSecondaryBand(obs) ==
    \E k \in 1..Len(obs) : obs[k].C2C # None \/ obs[k].C2P # None

\* C10: melbourne_wubbena raises nothing; it returns None whenever the
\* frequency pair cannot be determined or no secondary code band is there,
\* and one value per observation otherwise.
C10_MelbourneWubbenaNeverRaises ==
    ret.op = "melbourne_wubbena" =>
        /\ ret.err = None
        /\ IF scenario.freq = None \/ ~HasSecondaryBand(station_data)
           THEN ret.val = None
           ELSE ret.val # None /\ Len(ret.val[1]) = Len(station_data)

\* the receiver of sample i of the call, and whether its satellite is above
\* the receiver's horizon
ReceiverOf(i) == BroadcastRow(call_args.rec_pos, i)
InView(i) == Dot(Minus(call_args.sat_pos[i], ReceiverOf(i)), ReceiverOf(i)) > 0

\* the pierce point of a sample lies on the ionosphere shell, between the
\* receiver and the satellite
OnShellBetween(s) ==
    /\ ~s.nan
    /\ s.norm2 = call_args.ionh * call_args.ionh
    /\ ScaleGeq0(s)
    /\ ScaleLeq1(s)

\* C11: for every sample independently, with the receiver on the Earth's
\* surface and the satellite beyond the ionosphere shell and in view, the
\* root ion_locs selects gives a pierce point at distance ionosphere_radius
\* from the origin, with 0 <= t <= 1.
C11_PiercePointOnShellBetween ==
    ret.op = "ion_locs" =>
        \A i \in 1..Len(ret.val) : InView(i) => OnShellBetween(ret.val[i])

\* C12: the scenario's get_frequencies and get_glonass_chan lookups are each
\* made at most once per connection, however often the properties are read;
\* every read of a property of a connection returns the one value the lookup
\* gave, and glonass_chan of a non-GLONASS satellite is 0 with no lookup made.
C12_CachedPropertiesComputedOnce ==
    /\ \A c \in 1..Len(connections) :
          /\ scenario.calls[c].get_frequencies <= 1
          /\ scenario.calls[c].get_glonass_chan <= (IF is_glonass THEN 1 ELSE 0)
    /\ ret.op = "frequencies" => ret.val = scenario.freq
    /\ ret.op = "glonass_chan" =>
          ret.val = (IF is_glonass THEN scenario.chan ELSE Some(0))

\* a GLONASS connection's channel read again after both properties were looked up
C12_Witness ==
    /\ ret.op = "glonass_chan"
    /\ ret.cached
    /\ is_glonass
    /\ scenario.calls[ret.con] = [get_frequencies |-> 1, get_glonass_chan |-> 1]
    /\ ret.val = scenario.chan

\* C13: in every row from_raw_obs produces, is_processed is the raw
\* measurement's processed flag and is_corrected is its corrected flag.
C13_FlagsFollowRawMeasurement ==
    ret.op = "from_raw_obs" =>
        \A prn \in DOMAIN ret.val : \A i \in 1..Len(ret.val[prn]) :
            LET raw_meas == MeasurementsOf(call_args.raw_obs, prn)[i]
            IN  /\ ret.val[prn][i].is_processed = raw_meas.processed
                /\ ret.val[prn][i].is_corrected = raw_meas.corrected

\* the rows a batch holds for a satellite, none when it does not hold it
RowsOf(data, prn) == IF prn \in DOMAIN data THEN data[prn] ELSE <<>>

\* C14: merge_data(data1, data2) returns, for every satellite of either
\* input, the rows of data1 followed by the rows of data2, holds no other
\* satellite, and leaves both inputs as they were.
C14_MergeData ==
    [][ret'.op = "merge_data" =>
          /\ DOMAIN ret'.val = DOMAIN call_args.data1 \cup DOMAIN call_args.data2
          /\ \A prn \in DOMAIN ret'.val :
                ret'.val[prn] = RowsOf(call_args.data1, prn) \o RowsOf(call_args.data2, prn)
          /\ call_args' = call_args]_vars

\* a merge of batches that share a satellite and differ in another
C14_Witness ==
    /\ ret.op = "merge_data"
    /\ \E prn \in DOMAIN call_args.data1 \cap DOMAIN call_args.data2 :
          Len(ret.val[prn]) = Len(call_args.data1[prn]) + Len(call_args.data2[prn])
    /\ DOMAIN call_args.data2 \ DOMAIN call_args.data1 # {}
    /\ DOMAIN ret.val = Prns

\* the orderings of n triples, and a SparseList with its triples reordered
Orderings(n) ==
    { p \in [1..n -> 1..n] : \A i \in 1..n : \A j \in 1..n : i # j => p[i] # p[j] }
Reordered(sl, p) ==
    [sl EXCEPT !.ranges = [i \in 1..Len(sl.ranges) |-> sl.ranges[p[i]]],
               !.data = [i \in 1..Len(sl.ranges) |-> sl.data[p[i]]],
               !.tick_lookup = [i \in 1..Len(sl.ranges) |-> sl.tick_lookup[p[i]]]]

\* C15: for pairwise non-overlapping (range, data, lookup) triples, what
\* SparseList.__getitem__(tick) returns does not depend on the order of the
\* triples: every reordering gives the result the list as it stands gave.
C15_GetItemOrderIndependent ==
    ret.op = "sparse_getitem" =>
        \A p \in Orderings(Len(sparse[1].ranges)) :
            LET r == SparseList_getitem(Reordered(sparse[1], p), ret.tick)
            IN  /\ Some(r.val) = ret.val
                /\ r.err = ret.err

\* two triples held with the later range first, asked for a tick of the
\* earlier range, which answers with a stored element
C15_Witness ==
    /\ ret.op = "sparse_getitem"
    /\ Len(sparse[1].ranges) = 2
    /\ sparse[1].ranges[2][2] < sparse[1].ranges[1][1]
    /\ sparse[1].ranges[2][1] <= ret.tick
    /\ ret.tick <= sparse[1].ranges[2][2]
    /\ sparse[1].tick_lookup[2][ret.tick] # None
    /\ ret.err = None
    /\ ret.val # Some(sparse[1].default)

====
